---- MODULE Spec2Model ----
(***************************************************************************)
(* A model of Bway_Scraper2.py: one run of main(), which fetches a page,   *)
(* extracts four series of tokens with re.findall, assembles one record    *)
(* per index, converts and sorts the dates and saves the frame to Excel.   *)
(*                                                                         *)
(* Text is modelled as a sequence of runs <<c, n>>, n copies of the        *)
(* character c, so that str.replace, int() and the date parse are          *)
(* computed, not assumed, and a text of thousands of digits stays small.   *)
(***************************************************************************)
EXTENDS Integers, Sequences, FiniteSets, TLC

\* ---------------------------------------------------------------- bounds

\* The longest series re.findall returns in the model.
MaxLen == 2

\* The clock runs from 0 to MaxClock ticks.
MaxClock == 2

\* Ticks of the clock in one second (strftime '%S' drops what is below).
TicksPerSecond == 2

\* The most rows the sort is given when it is checked by itself.
SortRows == 18

\* text_content[:5000], line 91.
DebugLimit == 5000

\* int() of lines 118-120 raises ValueError on more digits than
\* sys.get_int_max_str_digits(), 4300 unless the interpreter is told
\* otherwise.
MaxStrDigits == 4300

\* ------------------------------------------------------- text and parsing

\* The text of the characters of s, one run each.
Chars(s) == [k \in 1..Len(s) |-> <<s[k], 1>>]

\* The characters int() and the \d of lines 33-35 take as decimal digits:
\* every Unicode decimal digit. "U+0663" is ARABIC-INDIC DIGIT THREE, one of
\* those outside ASCII.
Digits == {"0", "1", "2", "3", "4", "5", "6", "7", "8", "9", "U+0663"}

DigitVal(c) ==
    CASE c = "0" -> 0 [] c = "1" -> 1 [] c = "2" -> 2 [] c = "3" -> 3
      [] c = "4" -> 4 [] c = "5" -> 5 [] c = "6" -> 6 [] c = "7" -> 7
      [] c = "8" -> 8 [] c = "9" -> 9 [] c = "U+0663" -> 3

Min2(a, b) == IF a <= b THEN a ELSE b

\* The number of characters in the first n runs of s.
RECURSIVE LenUpTo(_, _)
LenUpTo(s, n) == IF n = 0 THEN 0 ELSE LenUpTo(s, n - 1) + s[n][2]

\* len(s).
TextLen(s) == LenUpTo(s, Len(s))

\* s.replace(old, ''): every occurrence of the character is removed.
Replace(s, old) == SelectSeq(s, LAMBDA r : r[1] # old)

\* int(s) returns (no ValueError): s is a non-empty run of decimal digits,
\* at most MaxStrDigits of them.
IsInt(s) ==
    \E t \in {s} :
        /\ TextLen(t) \in 1..MaxStrDigits
        /\ \A k \in 1..Len(t) : t[k][1] \in Digits

\* The value v followed by n digits c.
RECURSIVE RunVal(_, _, _)
RunVal(v, c, n) == IF n = 0 THEN v ELSE RunVal(10 * v + DigitVal(c), c, n - 1)

\* The value of the first n runs of s.
RECURSIVE IntUpTo(_, _)
IntUpTo(s, n) ==
    IF n = 0 THEN 0 ELSE RunVal(IntUpTo(s, n - 1), s[n][1], s[n][2])

\* int(s) for a run of digits (the set of one element has s computed once).
IntOf(s) == CHOOSE v \in { IntUpTo(t, Len(t)) : t \in {s} } : TRUE

\* The fields of s from run from on, between the separators (the texts
\* split here hold their separators one at a time); p is the first
\* separator from from on.
RECURSIVE SplitFrom(_, _, _)
SplitFrom(s, sep, from) ==
    IF \A k \in from..Len(s) : s[k][1] # sep THEN <<SubSeq(s, from, Len(s))>>
    ELSE CHOOSE f \in
            { <<SubSeq(s, from, p - 1)>> \o SplitFrom(s, sep, p + 1) :
                p \in { k \in from..Len(s) :
                          /\ s[k][1] = sep
                          /\ \A j \in from..(k - 1) : s[j][1] # sep } } : TRUE

\* s.split(sep): the fields of s between the separators (the set of one
\* element has s computed once).
Split(s, sep) == CHOOSE f \in { SplitFrom(t, sep, 1) : t \in {s} } : TRUE

IsLeap(y) == (y % 4 = 0 /\ y % 100 # 0) \/ y % 400 = 0

DaysInMonth(m, y) ==
    IF m = 2 THEN (IF IsLeap(y) THEN 29 ELSE 28)
    ELSE IF m \in {4, 6, 9, 11} THEN 30 ELSE 31

\* The day d of month m of year y exists.
ValidDay(y, m, d) == y >= 1 /\ m \in 1..12 /\ d \in 1..DaysInMonth(m, y)

\* Date a is earlier than date b.
DateLess(a, b) ==
    \/ a[1] < b[1]
    \/ a[1] = b[1] /\ a[2] < b[2]
    \/ a[1] = b[1] /\ a[2] = b[2] /\ a[3] < b[3]

\* The three numbers of a match of (\d{1,2}/\d{1,2}/\d{4}), line 32 (the
\* sets of one element have the split and the numbers computed once).
DateFields(tok) ==
    CHOOSE n \in { <<IntOf(f[1]), IntOf(f[2]), IntOf(f[3])>> :
                       f \in {Split(tok, "/")} } : TRUE

\* How pd.to_datetime of line 132, called with neither format nor dayfirst,
\* reads one text by itself: month first, or day first when the first
\* number is above 12.
Dateutil(tok) == IF DateFields(tok)[1] > 12 THEN "%d/%m/%Y" ELSE "%m/%d/%Y"

\* The date <<year, month, day>> the text is under the format.
Strptime(tok, fmt) ==
    CHOOSE d \in { IF fmt = "%d/%m/%Y" THEN <<n[3], n[2], n[1]>>
                                       ELSE <<n[3], n[1], n[2]>> :
                       n \in {DateFields(tok)} } : TRUE

\* The date fits datetime64[ns]: 1677-09-22 to 2262-04-11.
InBounds(d) == ~DateLess(d, <<1677, 9, 22>>) /\ ~DateLess(<<2262, 4, 11>>, d)

\* The text is a date under the format: a day that exists and, where the
\* column is of nanoseconds (ns), within their bounds.
Accepts(tok, fmt, ns) ==
    \E d \in {Strptime(tok, fmt)} :
        ValidDay(d[1], d[2], d[3]) /\ (ns => InBounds(d))

\* pd.to_datetime accepts the text read by itself, in nanoseconds.
ParsesAsDate(tok) == Accepts(tok, Dateutil(tok), TRUE)

\* pd.to_datetime of a text read by itself: the date <<year, month, day>>.
ToDatetime(tok) == Strptime(tok, Dateutil(tok))

\* datetime.now().strftime('%Y-%m-%d %H:%M:%S') at tick t: the second.
Strftime(t) == t \div TicksPerSecond

\* ------------------------------------------------------- extracted tokens

\* Matches of r'Week Ending:\s*(\d{1,2}/\d{1,2}/\d{4})': "1/5/2024",
\* "13/1/2024" (a date only day first), "1/5/1500" (out of the bounds of
\* nanoseconds) and "13/45/2024" (no such day).
WeekTokens ==
    { Chars(<<"1", "/", "5", "/", "2", "0", "2", "4">>),
      Chars(<<"1", "3", "/", "1", "/", "2", "0", "2", "4">>),
      Chars(<<"1", "/", "5", "/", "1", "5", "0", "0">>),
      Chars(<<"1", "3", "/", "4", "5", "/", "2", "0", "2", "4">>) }

\* Matches of r'Number of Shows:\s*(\d+)': "1" followed by U+0663, and a
\* run of "7", one digit more than int() takes.
ShowsTokens == { Chars(<<"1", "U+0663">>), << <<"7", MaxStrDigits + 1>> >> }

\* Matches of r'Gross Gross:\s*\$?([\d,]+)': "1,234" and ",".
GrossTokens == { Chars(<<"1", ",", "2", "3", "4">>), Chars(<<",">>) }

\* Matches of r'Total Attendance:\s*([\d,]+)': "45,6" and a run of "1",
\* one digit more than int() takes.
AttendanceTokens ==
    { Chars(<<"4", "5", ",", "6">>), << <<"1", MaxStrDigits + 1>> >> }

\* The lists re.findall may return: every sequence of at most MaxLen tokens.
SeqsUpTo(S) == UNION { [1..n -> S] : n \in 0..MaxLen }

\* len(text_content) of a page without any match.
TextLens == {0, DebugLimit - 1, DebugLimit, DebugLimit + 1}

\* ------------------------------------------------------------------ state

VARIABLES
    pc,           \* where the run is: fetch, extract, check, loop, returned, done
    requests,     \* number of HTTP GETs issued
    fetch_failed, \* requests.RequestException was caught
    extracted,    \* the four re.findall ran
    weeks, shows, gross, attendance,   \* the four extracted series
    i,            \* the loop index of range(min_length), from 0
    data,         \* the list of record dicts
    skipped,      \* the indices whose ValueError was caught
    df,           \* the frame scrape_weekly_show_data returns, row by row
    week_dtype,   \* dtype of df['Week_Ending']: "object" (text) or "datetime64"
    sorted,       \* sort_values ran
    clock,        \* the wall clock, in ticks
    text_len,     \* len(text_content), read at line 91 only
    process_error, \* the handler of lines 143-145 ran
    debug_writes, \* number of times the write of lines 90-91 was begun
    debug_file,   \* debug_html.txt: <<>> absent, <<n>> holding n characters
    save_calls,   \* number of calls of save_to_excel
    excel_file,   \* a spreadsheet file is on disk
    filename,     \* what save_to_excel returned: <<>> is None, <<s>> a name
    outcome       \* the last line main printed

vars == <<pc, requests, fetch_failed, extracted, weeks, shows, gross,
          attendance, i, data, skipped, df, week_dtype, sorted, clock,
          text_len, process_error, debug_writes, debug_file, save_calls,
          excel_file, filename, outcome>>

series == <<weeks, shows, gross, attendance>>
disk == <<text_len, process_error, debug_writes, debug_file, save_calls,
          excel_file, filename, outcome>>

Init ==
    /\ pc = "fetch"
    /\ requests = 0
    /\ fetch_failed = FALSE
    /\ extracted = FALSE
    /\ weeks = <<>> /\ shows = <<>> /\ gross = <<>> /\ attendance = <<>>
    /\ i = 0
    /\ data = <<>>
    /\ skipped = {}
    /\ df = <<>>
    /\ week_dtype = "object"
    /\ sorted = FALSE
    /\ clock = 0
    /\ text_len = 0
    /\ process_error = FALSE
    /\ debug_writes = 0
    /\ debug_file = <<>>
    /\ save_calls = 0
    /\ excel_file = FALSE
    /\ filename = <<>>
    /\ outcome = "none"

\* ------------------------------------------------- scrape_weekly_show_data

\* Lines 22-23: the GET succeeds.
FetchOK ==
    /\ pc = "fetch"
    /\ requests' = requests + 1
    /\ pc' = "extract"
    /\ UNCHANGED <<fetch_failed, extracted, series, i, data, skipped, df,
                   week_dtype, sorted, clock, disk>>

\* A slip of lines 140-142: the request is tried again.
FetchFailRetry ==
    /\ pc = "fetch"
    /\ requests' = requests + 1
    /\ fetch_failed' = TRUE
    /\ UNCHANGED <<pc, extracted, series, i, data, skipped, df, week_dtype,
                   sorted, clock, disk>>

\* Lines 22-23 raise requests.RequestException; lines 140-142 return an
\* empty frame.
FetchFail ==
    /\ pc = "fetch"
    /\ requests' = requests + 1
    /\ fetch_failed' = TRUE
    /\ df' = <<>>
    /\ pc' = "returned"
    /\ UNCHANGED <<extracted, series, i, data, skipped, week_dtype, sorted,
                   clock, disk>>

\* Lines 38-41: the four re.findall.
Extract ==
    /\ pc = "extract"
    /\ weeks' \in SeqsUpTo(WeekTokens)
    /\ shows' \in SeqsUpTo(ShowsTokens)
    /\ gross' \in SeqsUpTo(GrossTokens)
    /\ attendance' \in SeqsUpTo(AttendanceTokens)
    /\ extracted' = TRUE
    /\ pc' = "check"
    /\ UNCHANGED <<requests, fetch_failed, i, data, skipped, df, week_dtype,
                   sorted, clock, disk>>

\* Lines 26-44 and 143-145: building the soup or reading its text raises;
\* the generic handler returns an empty frame and nothing was extracted.
ExtractFails ==
    /\ pc = "extract"
    /\ process_error' = TRUE
    /\ df' = <<>>
    /\ pc' = "returned"
    /\ UNCHANGED <<requests, fetch_failed, extracted, series, i, data, skipped,
                   week_dtype, sorted, clock, text_len, debug_writes,
                   debug_file, save_calls, excel_file, filename, outcome>>

\* A slip of line 87: all(...) in the place of any(...).
AllFound == weeks # <<>> /\ shows # <<>> /\ gross # <<>> /\ attendance # <<>>

\* any([weeks, shows, gross, attendance]), line 87.
AnyFound == weeks # <<>> \/ shows # <<>> \/ gross # <<>> \/ attendance # <<>>

\* A slip of line 110: range(min_length - 1), one position short.
min_length_short ==
    LET m == Min2(Min2(Len(weeks), Len(shows)), Min2(Len(gross), Len(attendance)))
    IN  IF m = 0 THEN 0 ELSE m - 1

\* min(len(weeks), len(shows), len(gross), len(attendance)), line 104.
min_length == Min2(Min2(Len(weeks), Len(shows)), Min2(Len(gross), Len(attendance)))

\* Lines 87-93: nothing was found; the first 5000 characters are saved.
NoDataFound ==
    /\ pc = "check"
    /\ ~AnyFound
    /\ \E n \in TextLens :
          /\ text_len' = n
          /\ debug_file' = <<Min2(n, DebugLimit)>>
    /\ debug_writes' = debug_writes + 1
    /\ df' = <<>>
    /\ pc' = "returned"
    /\ UNCHANGED <<requests, fetch_failed, extracted, series, i, data, skipped,
                   week_dtype, sorted, clock, process_error, save_calls,
                   excel_file, filename, outcome>>

\* Lines 87-91 and 143-145: nothing was found and the open or the write of
\* debug_html.txt raises (a directory of that name, no permission, a full
\* disk); the generic handler returns an empty frame. The file is absent,
\* or it was opened and holds the characters written before the failure,
\* any number below what was to be written.
DebugWriteFails ==
    /\ pc = "check"
    /\ ~AnyFound
    /\ \E n \in TextLens :
          /\ text_len' = n
          /\ debug_file' \in
                {<<>>} \cup { <<m>> : m \in 0..(Min2(n, DebugLimit) - 1) }
    /\ debug_writes' = debug_writes + 1
    /\ process_error' = TRUE
    /\ df' = <<>>
    /\ pc' = "returned"
    /\ UNCHANGED <<requests, fetch_failed, extracted, series, i, data, skipped,
                   week_dtype, sorted, clock, save_calls, excel_file, filename,
                   outcome>>

\* Lines 106-108: some series is empty.
NoMatchingData ==
    /\ pc = "check"
    /\ AnyFound
    /\ min_length = 0
    /\ df' = <<>>
    /\ pc' = "returned"
    /\ UNCHANGED <<requests, fetch_failed, extracted, series, i, data, skipped,
                   week_dtype, sorted, clock, disk>>

\* Line 110: the loop is entered.
StartLoop ==
    /\ pc = "check"
    /\ AnyFound
    /\ min_length > 0
    /\ i' = 0
    /\ pc' = "loop"
    /\ UNCHANGED <<requests, fetch_failed, extracted, series, data, skipped, df,
                   week_dtype, sorted, clock, disk>>

\* gross[i].replace(',', ''), line 113 (the series are 1-based here).
clean_gross(k) == Replace(gross[k + 1], ",")

\* A slip of line 114: attendance[i - 1], which for i = 0 is the last entry.
clean_attendance_prev(k) ==
    Replace(attendance[IF k = 0 THEN Len(attendance) ELSE k], ",")

\* attendance[i].replace(',', ''), line 114.
clean_attendance(k) == Replace(attendance[k + 1], ",")

\* A slip of lines 118-120: the gross token goes unchecked.
ConvertsNoGross(k) ==
    /\ IsInt(clean_attendance(k))
    /\ IsInt(shows[k + 1])

\* Lines 118-120 raise no ValueError at index k.
Converts(k) ==
    /\ IsInt(clean_gross(k))
    /\ IsInt(clean_attendance(k))
    /\ IsInt(shows[k + 1])

\* The dict of lines 116-122, built at tick t. src_index is not a column:
\* it records the loop index the row was built at.
Record(k, t) ==
    [ Week_Ending      |-> weeks[k + 1],
      Gross_Gross      |-> IntOf(clean_gross(k)),
      Total_Attendance |-> IntOf(clean_attendance(k)),
      Number_of_Shows  |-> IntOf(shows[k + 1]),
      Scraped_Date     |-> Strftime(t),
      src_index        |-> k ]

\* What datetime.now() may read next: the clock has not moved, or has
\* moved one tick on.
Now == { t \in {clock, clock + 1} : t <= MaxClock }

\* Lines 110-122: one iteration that appends a record.
AppendRecord ==
    /\ pc = "loop"
    /\ i < min_length
    /\ Converts(i)
    /\ \E t \in Now :
          /\ clock' = t
          /\ data' = Append(data, Record(i, t))
    /\ i' = i + 1
    /\ UNCHANGED <<pc, requests, fetch_failed, extracted, series, skipped, df,
                   week_dtype, sorted, disk>>

\* A slip of line 125: break in the place of continue.
SkipRecordBreak ==
    /\ pc = "loop"
    /\ i < min_length
    /\ ~Converts(i)
    /\ skipped' = skipped \cup {i}
    /\ i' = min_length
    /\ UNCHANGED <<pc, requests, fetch_failed, extracted, series, data, df,
                   week_dtype, sorted, clock, disk>>

\* Lines 123-125: one iteration whose ValueError is caught.
SkipRecord ==
    /\ pc = "loop"
    /\ i < min_length
    /\ ~Converts(i)
    /\ skipped' = skipped \cup {i}
    /\ i' = i + 1
    /\ UNCHANGED <<pc, requests, fetch_failed, extracted, series, data, df,
                   week_dtype, sorted, clock, disk>>

\* Lines 127-130, 138: every index was skipped, the frame is empty.
EmptyFrame ==
    /\ pc = "loop"
    /\ i = min_length
    /\ data = <<>>
    /\ df' = <<>>
    /\ pc' = "returned"
    /\ UNCHANGED <<requests, fetch_failed, extracted, series, i, data, skipped,
                   week_dtype, sorted, clock, disk>>

\* pd.to_datetime(df['Week_Ending']), line 132, converts the column as a
\* whole, and how depends on the pandas installed (the repository names no
\* version): pandas 1 reads every row by itself, in nanoseconds; pandas 2
\* infers the format from the first row and applies it to every row, in
\* nanoseconds; pandas 3 does as pandas 2 in a unit that holds every year.

\* pandas 2 and 3: the format inferred from the first row.
InferredFormat(rows) == Dateutil(rows[1].Week_Ending)

\* pandas 2 (ns) and 3: every row is a date under the format of the first.
ConvertsInferred(rows, ns) ==
    \E fmt \in {InferredFormat(rows)} :
        \A k \in 1..Len(rows) : Accepts(rows[k].Week_Ending, fmt, ns)

\* pandas 2 and 3: the rows with the Week_Ending column converted.
WithDatesInferred(rows) ==
    [k \in 1..Len(rows) |->
        [rows[k] EXCEPT !.Week_Ending =
            Strptime(rows[k].Week_Ending, InferredFormat(rows))]]

\* pandas 1: every row is a date read by itself.
DatesParse(rows) == \A k \in 1..Len(rows) : ParsesAsDate(rows[k].Week_Ending)

\* pandas 1: the rows with the Week_Ending column converted.
WithDates(rows) ==
    [k \in 1..Len(rows) |->
        [rows[k] EXCEPT !.Week_Ending = ToDatetime(rows[k].Week_Ending)]]

\* The columns line 132 may return, over the versions of pandas.
ToDatetimeColumn(rows) ==
    (IF ConvertsInferred(rows, FALSE) THEN {WithDatesInferred(rows)} ELSE {})
        \cup (IF DatesParse(rows) THEN {WithDates(rows)} ELSE {})

\* Line 132 may raise: under one of the versions a row is no date.
ToDatetimeRaises(rows) == ~ConvertsInferred(rows, TRUE) \/ ~DatesParse(rows)

\* numpy's quicksort sorts a range of more than SmallQuicksort + 1 entries
\* by partition and a shorter one by insertion (SMALL_QUICKSORT).
SmallQuicksort == 16

\* The index array a with its entries x and y exchanged.
Swap(a, x, y) == [a EXCEPT ![x] = a[y], ![y] = a[x]]

\* Entry vi is put in its place among a[pl..pj-1], which are in order.
RECURSIVE InsertAt(_, _, _, _, _)
InsertAt(v, a, pl, pj, vi) ==
    IF pj > pl /\ DateLess(v[vi], v[a[pj - 1]])
    THEN InsertAt(v, [a EXCEPT ![pj] = a[pj - 1]], pl, pj - 1, vi)
    ELSE [a EXCEPT ![pj] = vi]

\* Insertion sort of a[pl..pr], the entries before pi being in order.
RECURSIVE InsertionSort(_, _, _, _, _)
InsertionSort(v, a, pl, pr, pi) ==
    IF pi > pr THEN a
    ELSE InsertionSort(v, InsertAt(v, a, pl, pi, a[pi]), pl, pr, pi + 1)

\* do ++pi while v[a[pi]] < vp.
RECURSIVE ScanUp(_, _, _, _)
ScanUp(v, a, pi, vp) ==
    IF DateLess(v[a[pi + 1]], vp) THEN ScanUp(v, a, pi + 1, vp) ELSE pi + 1

\* do --pj while vp < v[a[pj]].
RECURSIVE ScanDown(_, _, _, _)
ScanDown(v, a, pj, vp) ==
    IF DateLess(vp, v[a[pj - 1]]) THEN ScanDown(v, a, pj - 1, vp) ELSE pj - 1

\* The partition loop: <<the index array, where pi stops>>.
RECURSIVE PartitionLoop(_, _, _, _, _)
PartitionLoop(v, a, pi, pj, vp) ==
    LET i2 == ScanUp(v, a, pi, vp)
        j2 == ScanDown(v, a, pj, vp)
    IN  IF i2 >= j2 THEN <<a, i2>>
        ELSE PartitionLoop(v, Swap(a, i2, j2), i2, j2, vp)

\* The median of a[pl], a[pm], a[pr] is brought to pm.
Median3(v, a, pl, pm, pr) ==
    LET a1 == IF DateLess(v[a[pm]], v[a[pl]]) THEN Swap(a, pm, pl) ELSE a
        a2 == IF DateLess(v[a1[pr]], v[a1[pm]]) THEN Swap(a1, pr, pm) ELSE a1
    IN  IF DateLess(v[a2[pm]], v[a2[pl]]) THEN Swap(a2, pm, pl) ELSE a2

\* numpy's argsort of kind 'quicksort' on a[pl..pr]: the indices into v in
\* ascending order of v.
RECURSIVE Aquicksort(_, _, _, _)
Aquicksort(v, a, pl, pr) ==
    IF pr - pl > SmallQuicksort
    THEN LET pm == pl + ((pr - pl) \div 2)
             a3 == Median3(v, a, pl, pm, pr)
             vp == v[a3[pm]]
             res == PartitionLoop(v, Swap(a3, pm, pr - 1), pl, pr - 1, vp)
             a5 == Swap(res[1], res[2], pr - 1)
         IN  Aquicksort(v, Aquicksort(v, a5, pl, res[2] - 1), res[2] + 1, pr)
    ELSE InsertionSort(v, a, pl, pr, pl + 1)

\* A slip of line 134: ascending=True, the keys are sorted as they stand.
NargsortAscending(keys) ==
    Aquicksort(keys, [j \in 1..Len(keys) |-> j], 1, Len(keys))

\* pandas' nargsort under ascending=False, line 134: the keys are reversed,
\* sorted ascending, and the indexer is reversed.
Nargsort(keys) ==
    LET n == Len(keys)
        perm == Aquicksort([j \in 1..n |-> keys[n + 1 - j]],
                           [j \in 1..n |-> j], 1, n)
    IN  [j \in 1..n |-> n + 1 - perm[n + 1 - j]]

\* sort_values('Week_Ending', ascending=False).reset_index(drop=True),
\* line 134, with kind left at its default 'quicksort'.
SortValues(rows) ==
    LET ix == Nargsort([k \in 1..Len(rows) |-> rows[k].Week_Ending])
    IN  [k \in 1..Len(rows) |-> rows[ix[k]]]

\* Lines 130-134, 138: the dates convert and the frame is sorted.
SortByDate ==
    /\ pc = "loop"
    /\ i = min_length
    /\ data # <<>>
    /\ \E rows \in ToDatetimeColumn(data) : df' = SortValues(rows)
    /\ week_dtype' = "datetime64"
    /\ sorted' = TRUE
    /\ pc' = "returned"
    /\ UNCHANGED <<requests, fetch_failed, extracted, series, i, data, skipped,
                   clock, disk>>

\* A slip of lines 135-136: the handler returns pd.DataFrame().
DateWarningEmpty ==
    /\ pc = "loop"
    /\ i = min_length
    /\ data # <<>>
    /\ ToDatetimeRaises(data)
    /\ df' = <<>>
    /\ pc' = "returned"
    /\ UNCHANGED <<requests, fetch_failed, extracted, series, i, data, skipped,
                   week_dtype, sorted, clock, disk>>

\* Lines 135-138: pd.to_datetime raises, the frame is returned as built.
DateWarning ==
    /\ pc = "loop"
    /\ i = min_length
    /\ data # <<>>
    /\ ToDatetimeRaises(data)
    /\ df' = data
    /\ pc' = "returned"
    /\ UNCHANGED <<requests, fetch_failed, extracted, series, i, data, skipped,
                   week_dtype, sorted, clock, disk>>

\* ------------------------------------------------- save_to_excel and main

\* Lines 211-220 and 155-196: the frame is not empty and the file is saved.
SaveOK ==
    /\ pc = "returned"
    /\ df # <<>>
    /\ save_calls' = save_calls + 1
    /\ \E t \in Now :
          /\ clock' = t
          /\ filename' = <<Strftime(t)>>
    /\ excel_file' = TRUE
    /\ outcome' = "saved"
    /\ pc' = "done"
    /\ UNCHANGED <<requests, fetch_failed, extracted, series, i, data, skipped,
                   df, week_dtype, sorted, text_len, process_error, debug_writes,
                   debug_file>>

\* A slip of lines 198-200: the exception is not caught and main dies.
SaveFailRaises ==
    /\ pc = "returned"
    /\ df # <<>>
    /\ save_calls' = save_calls + 1
    /\ pc' = "crashed"
    /\ UNCHANGED <<requests, fetch_failed, extracted, series, i, data, skipped,
                   df, week_dtype, sorted, clock, text_len, process_error,
                   debug_writes, debug_file, excel_file, filename, outcome>>

\* Lines 198-200 and 221-222: an exception inside save_to_excel; None is
\* returned. ExcelWriter may or may not have left a file behind.
SaveFail ==
    /\ pc = "returned"
    /\ df # <<>>
    /\ save_calls' = save_calls + 1
    /\ \E t \in Now : clock' = t
    /\ filename' = <<>>
    /\ excel_file' \in BOOLEAN
    /\ outcome' = "save_failed"
    /\ pc' = "done"
    /\ UNCHANGED <<requests, fetch_failed, extracted, series, i, data, skipped,
                   df, week_dtype, sorted, text_len, process_error, debug_writes,
                   debug_file>>

\* Lines 223-224: the frame is empty.
NoDataScraped ==
    /\ pc = "returned"
    /\ df = <<>>
    /\ outcome' = "no_data"
    /\ pc' = "done"
    /\ UNCHANGED <<requests, fetch_failed, extracted, series, i, data, skipped,
                   df, week_dtype, sorted, clock, text_len, process_error,
                   debug_writes, debug_file, save_calls, excel_file, filename>>

\* The steps of a run once requests.get has returned or raised.
AfterFetch ==
    \/ Extract \/ ExtractFails
    \/ NoDataFound \/ DebugWriteFails \/ NoMatchingData \/ StartLoop
    \/ AppendRecord \/ SkipRecord
    \/ EmptyFrame \/ SortByDate \/ DateWarning
    \/ SaveOK \/ SaveFail \/ NoDataScraped

Next == FetchOK \/ FetchFail \/ AfterFetch

Spec == Init /\ [][Next]_vars

\* Once requests.get has returned or raised, no step waits on anything and
\* the script runs to its end. The GET of line 22 sets no timeout: the run
\* may wait in it for ever, and nothing is assumed of FetchOK and FetchFail.
FairSpec == Spec /\ WF_vars(AfterFetch)

\* ------------------------------------------------------ the sort by itself

\* The week series the sort is checked on: 2, SortRows - 1 or SortRows
\* entries, all "1/5/2024" or all "13/1/2024" but for at most one.
SortWeeks ==
    { [k \in 1..n |-> IF k = p THEN b ELSE a] :
        n \in {2, SortRows - 1, SortRows}, p \in 0..SortRows,
        a \in { Chars(<<"1", "/", "5", "/", "2", "0", "2", "4">>),
                Chars(<<"1", "3", "/", "1", "/", "2", "0", "2", "4">>) },
        b \in { Chars(<<"1", "/", "5", "/", "2", "0", "2", "4">>),
                Chars(<<"1", "3", "/", "1", "/", "2", "0", "2", "4">>) } }

\* The run after the last iteration of a loop that kept every position:
\* the four series have one length and their numbers all convert.
SortInit ==
    /\ pc = "loop"
    /\ requests = 1
    /\ fetch_failed = FALSE
    /\ extracted = TRUE
    /\ weeks \in SortWeeks
    /\ shows = [k \in 1..Len(weeks) |-> Chars(<<"1", "U+0663">>)]
    /\ gross = [k \in 1..Len(weeks) |-> Chars(<<"1", ",", "2", "3", "4">>)]
    /\ attendance = [k \in 1..Len(weeks) |-> Chars(<<"4", "5", ",", "6">>)]
    /\ i = Len(weeks)
    /\ data = [k \in 1..Len(weeks) |-> Record(k - 1, 0)]
    /\ skipped = {}
    /\ df = <<>>
    /\ week_dtype = "object"
    /\ sorted = FALSE
    /\ clock = 0
    /\ text_len = 0
    /\ process_error = FALSE
    /\ debug_writes = 0
    /\ debug_file = <<>>
    /\ save_calls = 0
    /\ excel_file = FALSE
    /\ filename = <<>>
    /\ outcome = "none"

\* Lines 127-138 and main from there on.
SortNext == SortByDate \/ DateWarning \/ SaveOK \/ SaveFail

SortSpec == SortInit /\ [][SortNext]_vars

\* ----------------------------------------------------------------- claims

\* scrape_weekly_show_data has returned.
Finished == pc \in {"returned", "done"}

\* The least of the four series lengths.
MinOfLengths ==
    LET L == {Len(weeks), Len(shows), Len(gross), Len(attendance)}
    IN  CHOOSE m \in L : \A n \in L : m <= n

\* int() takes the token once its commas are stripped.
TokenIsInteger(tok) == IsInt(Replace(tok, ","))

\* Position k has a gross, attendance or shows token that fails to convert.
PositionFails(k) ==
    ~(/\ TokenIsInteger(gross[k + 1])
      /\ TokenIsInteger(attendance[k + 1])
      /\ TokenIsInteger(shows[k + 1]))

FailingPositions == {k \in 0..(MinOfLengths - 1) : PositionFails(k)}

RetainedPositions == (0..(MinOfLengths - 1)) \ FailingPositions

HasRowOf(rows, k) == \E x \in 1..Len(rows) : rows[x].src_index = k

\* The week texts of the assembled records all parse, whatever the pandas.
AllDatesParse == data # <<>> /\ ~ToDatetimeRaises(data)

\* A week text of the assembled records fails to parse, whatever the pandas.
SomeDateFails ==
    data # <<>> /\ ~ConvertsInferred(data, FALSE) /\ ~DatesParse(data)

\* The text is a date neither month first nor day first.
NeverADate(tok) ==
    ~Accepts(tok, "%m/%d/%Y", FALSE) /\ ~Accepts(tok, "%d/%m/%Y", FALSE)

\* C1 as stated: the number of records returned equals the minimum of the
\* four series lengths.
RecordCountIsMinLength ==
    (Finished /\ extracted) => Len(df) = MinOfLengths

\* C1, amended: the number of records returned never exceeds the minimum of
\* the four series lengths and equals it when every token of the first
\* min positions converts; no entry at or beyond the minimum gives a record.
RecordCountAtMostMinLength ==
    (Finished /\ extracted) =>
        /\ Len(df) <= MinOfLengths
        /\ (FailingPositions = {} => Len(df) = MinOfLengths)
        /\ \A x \in 1..Len(df) : df[x].src_index < MinOfLengths

\* Series of unequal lengths whose tokens all convert: one record each for
\* the first min positions, the longer series cut.
UnequalLengthsCut ==
    /\ Finished
    /\ MinOfLengths = 1
    /\ Len(df) = 1
    /\ Len(weeks) = 2
    /\ Len(shows) = 1

\* The text is an integer: a non-empty run of digits, however long.
IsIntegerText(s) == Len(s) > 0 /\ \A k \in 1..Len(s) : s[k][1] \in Digits

\* Position k has a gross, attendance or shows token that is no integer
\* after comma stripping.
NonIntegerPositions ==
    { k \in 0..(MinOfLengths - 1) :
        ~(/\ IsIntegerText(Replace(gross[k + 1], ","))
          /\ IsIntegerText(Replace(attendance[k + 1], ","))
          /\ IsIntegerText(shows[k + 1])) }

\* C2 as stated: the positions skipped are those with a token that is not
\* an integer after comma stripping, and the count is the minimum length
\* less the number of them.
OnlyNonIntegersSkipped ==
    (Finished /\ extracted) =>
        /\ skipped = NonIntegerPositions
        /\ Len(df) = MinOfLengths - Cardinality(NonIntegerPositions)

\* C2, amended: a position whose gross, attendance or shows token int()
\* does not convert once its commas are stripped (nothing is left, or more
\* than 4300 digits are) is skipped, and only it: the loop goes on, every
\* other position gives a record, and the count is the minimum length less
\* the failing positions.
OnlyFailingPositionsSkipped ==
    /\ pc = "loop" =>
        /\ skipped = {k \in FailingPositions : k < i}
        /\ Len(data) = i - Cardinality(skipped)
        /\ \A k \in RetainedPositions : k < i => HasRowOf(data, k)
    /\ (Finished /\ extracted) =>
        /\ skipped = FailingPositions
        /\ Len(df) = MinOfLengths - Cardinality(FailingPositions)
        /\ \A k \in RetainedPositions : HasRowOf(df, k)

\* The first position fails, on an attendance of more digits than int()
\* takes, and the second still gives the one record.
SkippedThenKept ==
    /\ Finished
    /\ MinOfLengths = 2
    /\ skipped = {0}
    /\ TextLen(attendance[1]) > MaxStrDigits
    /\ Len(df) = 1
    /\ df[1].src_index = 1

\* C3 as stated: every record returned has all four fields parsed, the
\* date included; a position whose date does not parse is absent.
NoPartialRecords ==
    Finished =>
        /\ df # <<>> => week_dtype = "datetime64"
        /\ \A k \in 0..(MinOfLengths - 1) :
              (PositionFails(k) \/ NeverADate(weeks[k + 1])) => ~HasRowOf(df, k)

\* C3, amended: every record returned has its three numeric fields parsed
\* to integers, and a position where one of them fails is absent; the
\* week_ending column is dates in every record when every assembled week
\* text parses, and text in every record when one does not, the records
\* with an unparsable date included.
NumericFieldsParsed ==
    Finished =>
        /\ \A x \in 1..Len(df) :
              /\ ~PositionFails(df[x].src_index)
              /\ df[x].Gross_Gross \in Nat
              /\ df[x].Total_Attendance \in Nat
              /\ df[x].Number_of_Shows \in Nat
        /\ \A k \in FailingPositions : ~HasRowOf(df, k)
        /\ week_dtype = "object" => ~AllDatesParse
        /\ week_dtype = "datetime64" => ~SomeDateFails
        /\ week_dtype = "object" => \A k \in RetainedPositions : HasRowOf(df, k)

\* A record whose date does not parse is returned, beside a position
\* dropped for its gross token.
PartialRecordReturned ==
    /\ Finished
    /\ Len(df) = 1
    /\ week_dtype = "object"
    /\ NeverADate(df[1].Week_Ending)
    /\ \E k \in FailingPositions : ~TokenIsInteger(gross[k + 1])

\* Rows x < y never have the earlier date first.
Descending(rows) ==
    \A x, y \in 1..Len(rows) :
        x < y => ~DateLess(rows[x].Week_Ending, rows[y].Week_Ending)

\* Rows of equal week_ending keep the order of their indices.
TiesInIndexOrder(rows) ==
    \A x, y \in 1..Len(rows) :
        (x < y /\ rows[x].Week_Ending = rows[y].Week_Ending)
            => rows[x].src_index < rows[y].src_index

\* C4 as stated: when all dates parse the result is newest first and the
\* sort is stable: records of equal week_ending keep their index order.
SortIsStable ==
    (Finished /\ week_dtype = "datetime64") =>
        (Descending(df) /\ TiesInIndexOrder(df))

\* C4, amended: when all dates parse the result is the assembled records,
\* each once, ordered by week_ending newest first; records of equal
\* week_ending keep their index order when at most 17 records are sorted,
\* and with more nothing is said of their order.
SortedNewestFirst ==
    Finished =>
        /\ week_dtype # "datetime64" => ~AllDatesParse
        /\ week_dtype = "datetime64" =>
              /\ sorted
              /\ Descending(df)
              /\ \E rows \in ToDatetimeColumn(data) :
                    /\ Len(df) = Len(rows)
                    /\ \A k \in 1..Len(rows) :
                          \E x \in 1..Len(df) : df[x] = rows[k]
              /\ Len(df) <= SmallQuicksort + 1 => TiesInIndexOrder(df)

\* The most rows are sorted, and the one later week, extracted last,
\* comes out first.
SortReordered ==
    /\ Finished
    /\ sorted
    /\ Len(df) = SortRows
    /\ df[1].src_index = SortRows - 1
    /\ DateLess(df[2].Week_Ending, df[1].Week_Ending)

\* C5 as stated: scraped_at has the same value in every record returned.
ScrapedAtIdentical ==
    \A x, y \in 1..Len(df) : df[x].Scraped_Date = df[y].Scraped_Date

\* C6: the write of the diagnostic file is made exactly when all four
\* series are empty, and the result is then empty; with a match in any
\* series, or with nothing extracted, it is never made and there is no
\* file. What the file holds is the first 5000 characters of the text, or,
\* when the write raised, what was written of them before it did.
DiagnosticOnlyWhenNothingFound ==
    /\ debug_writes <= 1
    /\ debug_writes = 1 =>
        /\ extracted
        /\ Len(weeks) + Len(shows) + Len(gross) + Len(attendance) = 0
        /\ df = <<>>
    /\ (Finished /\ extracted
          /\ Len(weeks) + Len(shows) + Len(gross) + Len(attendance) = 0)
        => (debug_writes = 1 /\ df = <<>>)
    /\ debug_writes = 0 => debug_file = <<>>
    /\ debug_file # <<>> =>
          debug_file[1] <= (IF text_len < 5000 THEN text_len ELSE 5000)
    /\ (debug_writes = 1 /\ ~process_error) =>
          debug_file = <<IF text_len < 5000 THEN text_len ELSE 5000>>

\* A page of more than 5000 characters without a match: 5000 are saved.
DiagnosticWritten ==
    /\ pc = "done"
    /\ outcome = "no_data"
    /\ debug_writes = 1
    /\ debug_file = <<5000>>
    /\ text_len > 5000
    /\ ~process_error

\* C7: after a failed GET there is no second request, the result is empty,
\* extraction and assembly never run, save_to_excel is never called and
\* neither a spreadsheet nor a diagnostic file is written.
FetchFailureAbortsRun ==
    /\ requests <= 1
    /\ fetch_failed =>
        /\ requests = 1
        /\ ~extracted
        /\ weeks = <<>> /\ shows = <<>> /\ gross = <<>> /\ attendance = <<>>
        /\ data = <<>> /\ skipped = {} /\ ~sorted
        /\ df = <<>>
        /\ save_calls = 0
        /\ ~excel_file
        /\ filename = <<>>
        /\ debug_file = <<>>
        /\ outcome \in {"none", "no_data"}

\* The run ended after a failed GET.
FetchFailedRunEnded ==
    /\ fetch_failed
    /\ pc = "done"
    /\ outcome = "no_data"

\* C8: if a week_ending text of the assembled records fails to parse, all
\* assembled records are returned, every week_ending the original text, in
\* index order, unsorted.
BadDateKeepsAllRecords ==
    Finished =>
        /\ (df = <<>> \/ week_dtype # "object") => ~SomeDateFails
        /\ (df # <<>> /\ week_dtype = "object") =>
              /\ ~sorted
              /\ Len(df) = Cardinality(RetainedPositions)
              /\ \A x \in 1..Len(df) :
                    /\ df[x].src_index \in RetainedPositions
                    /\ df[x].Week_Ending = weeks[df[x].src_index + 1]
              /\ \A x, y \in 1..Len(df) :
                    x < y => df[x].src_index < df[y].src_index

\* Two records are returned unsorted, the second with the later date and
\* the first with a text that is no date.
BadDateReturned ==
    /\ Finished
    /\ Len(df) = 2
    /\ week_dtype = "object"
    /\ NeverADate(df[1].Week_Ending)
    /\ ~NeverADate(df[2].Week_Ending)

\* How a run stands with respect to save_to_excel and its last line.
RunOutcome ==
    /\ pc \in {"fetch", "extract", "check", "loop", "returned", "done"}
    /\ save_calls <= 1
    /\ save_calls = 1 => (pc = "done" /\ df # <<>> /\ outcome # "no_data")
    /\ pc = "done" =>
        \/ outcome = "saved" /\ save_calls = 1 /\ filename # <<>> /\ excel_file
        \/ outcome = "save_failed" /\ save_calls = 1 /\ filename = <<>>
        \/ outcome = "no_data" /\ save_calls = 0 /\ df = <<>> /\ filename = <<>>

\* C9: on each of the paths fetch failure, empty extraction, write failure
\* and success, that is from the return or the exception of the GET on,
\* the run of main ends, without an uncaught exception: save_to_excel is
\* called at most once and only with a non-empty result, it returns the
\* path on success and None on an exception, and the run ends with the path
\* reported or with the reason there is none.
MainTerminates == []RunOutcome /\ ((pc # "fetch") ~> (pc = "done"))

\* A run that ended with the write failing.
WriteFailedRunEnded ==
    /\ pc = "done"
    /\ outcome = "save_failed"
    /\ filename = <<>>
    /\ df # <<>>

\* Row r holds the values of position k of the four series.
RowFrom(r, k, dtype) ==
    /\ ~PositionFails(k)
    /\ r.Week_Ending \in
          (IF dtype = "datetime64"
           THEN {Strptime(weeks[k + 1], "%m/%d/%Y"),
                 Strptime(weeks[k + 1], "%d/%m/%Y")}
           ELSE {weeks[k + 1]})
    /\ r.Gross_Gross = IntOf(Replace(gross[k + 1], ","))
    /\ r.Total_Attendance = IntOf(Replace(attendance[k + 1], ","))
    /\ r.Number_of_Shows = IntOf(shows[k + 1])

\* Each row comes from one position below the minimum length, no position
\* twice.
Aligned(rows, dtype) ==
    \E f \in [1..Len(rows) -> 0..(MinOfLengths - 1)] :
        /\ \A x, y \in 1..Len(rows) : f[x] = f[y] => x = y
        /\ \A x \in 1..Len(rows) : RowFrom(rows[x], f[x], dtype)

\* C10: every record is positionally aligned: its four values come from one
\* index below the minimum length, no index gives two records and no index
\* at or beyond the minimum gives any.
PositionalAlignment ==
    /\ Aligned(data, "object")
    /\ Aligned(df, week_dtype)

\* Two records of different values, each from one position.
TwoAlignedRecords ==
    /\ Finished
    /\ Len(df) = 2
    /\ Len(gross) = 2
    /\ Len(attendance) = 2
    /\ df[1].Number_of_Shows = 13
    /\ df[1].Week_Ending # df[2].Week_Ending

====
